---- MODULE Spec2Model ----
(***************************************************************************)
(* Model of the Reversi rules engine of src/src/reversi.py: the board,     *)
(* the capture search (move_works / find_moves), apply_move, skip_turn,    *)
(* check_for_dead_moves, end_game, load_game and roll_back.                *)
(*                                                                         *)
(* A game object is a record G with the fields of class Reversi; every     *)
(* method is an operator from a game record (and its arguments) to the     *)
(* game record the method leaves behind, with an extra field err holding   *)
(* the message of the exception the method raised ("none" on return).      *)
(***************************************************************************)
EXTENDS Integers, Sequences, FiniteSets, TLC

\* ---------------------------------------------------------------- bounds
\* longest history (number of recorded moves) the caller builds up
MaxHist == 5
\* longest history in the plays from construction (apply_move, roll_back and
\* available_moves only)
MaxPlay == 9
\* the caller picks among the first MaxPick available moves (row-major
\* order) or the last one
MaxPick == 2
\* load_game is called only while the history has at most this many records
MaxLoadHist == 0
\* the constructor is called with side in 0..MaxSideArg and players in
\* 0..MaxPlayersArg
MaxSideArg == 11
MaxPlayersArg == 10
\* in the runs with simulate_moves: longest history of the receiver, longest
\* list passed to simulate_moves, longest history of the clone
MaxSim == 1
MaxList == 1
MaxClone == 2
\* longest history in the runs with calls about positions outside the board
MaxAsk == 2
\* longest history in the runs of unrestricted calls
MaxFree == 2
\* longest history in the runs of turn and query calls
MaxCalls == 2
\* longest history in the runs of available_moves queries
MaxQuery == 4
\* longest history in the runs of check_for_dead_moves
MaxDead == 2
\* longest history in the runs of calls on finished games
MaxDone == 2
\* longest history in the runs of load_game after the opening
MaxPhase == 1
\* longest history in the runs with a grid held by the caller
MaxHeld == 2
\* longest history in the runs with an empty board loaded
MaxEmpty == 2
\* longest history in the runs that follow the history
MaxTrail == 3
\* longest history in the runs that watch the owners and the turn
MaxRange == 2
\* longest history in the runs that load grids with uneven rows
MaxRagged == 2
\* longest history in the runs of capture moves
MaxCapture == 5
\* end_game is not called again once outcome has this many entries (on an
\* empty board every call of end_game appends every player to outcome)
MaxOutcome == 4

\* ------------------------------------------------------------- constants
DIRECTION_LIST ==
  << <<1, 1>>, <<0, 1>>, <<1, 0>>, <<-1, -1>>, <<0, -1>>, <<-1, 0>>,
     <<1, -1>>, <<-1, 1>> >>

Dirs == {DIRECTION_LIST[i] : i \in 1..Len(DIRECTION_LIST)}

NoErr == "none"
ErrOutside == "Specified position outside board"
ErrOutsideThe == "Specified position outside the board"
ErrNoPiece == "No piece at that position"
ErrPop == "pop from empty list"
ErrNoPlayer == "No such player exists"
ErrSize == "Input is not the same size as the current board"
ErrSizeBoard == "Cannot change board size"
ErrInvalidPlayer == "Grid contains invalid player"
ErrIndex == "list assignment index out of range"

NoPos == <<-1, -1>>

VARIABLES side, players, othello, grid, turn, done, outcome, first_two,
          moves, last, clone, held, tui

vars == <<side, players, othello, grid, turn, done, outcome, first_two,
          moves, last, clone, held, tui>>

\* ------------------------------------------------------------ the board
Squares(n) == (0..(n - 1)) \X (0..(n - 1))

\* Board.__init__: a side x side grid of zeros
Board(n) == [p \in Squares(n) |-> 0]

\* Reversi.size
size(G) == G.side

\* Reversi.num_players
num_players(G) == G.players

OnBoard(G, r, c) == 0 <= r /\ r < size(G) /\ 0 <= c /\ c < size(G)

\* Board.pieces: the occupied squares
pieces(G) == {p \in Squares(size(G)) : G.grid[p] # 0}

\* Board.add_piece
add_piece(g, player, pos) == [g EXCEPT ![pos] = player]

\* Board.remove_piece
remove_piece(g, pos) == [g EXCEPT ![pos] = 0]

\* Board.update_piece: the new grid, or the error when the square is empty
update_piece(g, pos, player) ==
  IF g[pos] # 0 THEN [grid |-> [g EXCEPT ![pos] = player], err |-> NoErr]
  ELSE [grid |-> g, err |-> ErrNoPiece]

\* ---------------------------------------------------------- construction
ErrOthello == "Othello is not allowed for more than 2 players."
ErrPlayers == "Player count must be 2-9."
ErrSide == "Side length must be greater than 3."
ErrSidePlayers == "Side length must be greater than number of players."
ErrParity == "Parity of players and side length must match."

\* the tests of the constructor without the comparison of side and players
InitError_NoSidePlayers(s, n, oth) ==
  IF n > 2 /\ oth THEN ErrOthello
  ELSE IF n < 2 \/ n > 9 THEN ErrPlayers
  ELSE IF s < 3 THEN ErrSide
  ELSE IF s % 2 # n % 2 THEN ErrParity
  ELSE NoErr

\* Reversi.__init__: the exception it raises, if any
InitError(s, n, oth) ==
  IF n > 2 /\ oth THEN ErrOthello
  ELSE IF n < 2 \/ n > 9 THEN ErrPlayers
  ELSE IF s < 3 THEN ErrSide
  ELSE IF s <= n THEN ErrSidePlayers
  ELSE IF s % 2 # n % 2 THEN ErrParity
  ELSE NoErr

\* the constructor seeding the Othello squares with the two players swapped
Reversi_SwappedSeeds(s, n, oth) ==
  LET h == s \div 2
      seeded == add_piece(add_piece(add_piece(add_piece(Board(s),
                  1, <<h - 1, h - 1>>), 1, <<h, h>>), 2, <<h, h - 1>>),
                  2, <<h - 1, h>>)
  IN [side |-> s, players |-> n, othello |-> oth,
      grid |-> IF oth THEN seeded ELSE Board(s),
      turn |-> 1, done |-> FALSE, outcome |-> <<>>,
      first_two |-> ~oth, moves |-> <<>>]

\* Reversi.__init__: the constructed game
Reversi(s, n, oth) ==
  LET h == s \div 2
      seeded == add_piece(add_piece(add_piece(add_piece(Board(s),
                  2, <<h - 1, h - 1>>), 2, <<h, h>>), 1, <<h, h - 1>>),
                  1, <<h - 1, h>>)
  IN [side |-> s, players |-> n, othello |-> oth,
      grid |-> IF oth THEN seeded ELSE Board(s),
      turn |-> 1, done |-> FALSE, outcome |-> <<>>,
      first_two |-> ~oth, moves |-> <<>>]

\* the configurations the model constructs
Configs ==
  { <<4, 2, TRUE>>, <<4, 2, FALSE>>, <<5, 3, FALSE>> }

\* -------------------------------------------------------- capture search
None == <<>>
Some(v) == <<v>>

\* move_works without the recursive line-following: only a run of one piece
move_works_AdjacentOnly(G, p, dir, rec) ==
  LET r == p[1]
      c == p[2]
      y == dir[1]
      x == dir[2]
  IN IF /\ OnBoard(G, r - y, c - x)
        /\ OnBoard(G, r + y, c + x)
        /\ G.grid[<<r, c>>] # G.turn
        /\ G.grid[<<r + y, c + x>>] = G.turn
        /\ (G.grid[<<r - y, c - x>>] = 0 \/ rec > 1)
     THEN Some(<<r - rec * y, c - rec * x>>)
     ELSE None

\* Reversi.move_works: Some(square) where the mover can play to flip the
\* run that starts at piece p and continues along dir, or None
RECURSIVE move_works(_, _, _, _)
move_works(G, p, dir, rec) ==
  LET r == p[1]
      c == p[2]
      y == dir[1]
      x == dir[2]
  IN IF /\ OnBoard(G, r - y, c - x)
        /\ OnBoard(G, r + y, c + x)
        /\ G.grid[<<r, c>>] # G.turn
        /\ G.grid[<<r + y, c + x>>] # 0
        /\ (G.grid[<<r - y, c - x>>] = 0 \/ rec > 1)
     THEN IF G.grid[<<r + y, c + x>>] = G.turn
          THEN Some(<<r - rec * y, c - rec * x>>)
          ELSE move_works(G, <<r + y, c + x>>, dir, rec + 1)
     ELSE None

\* the rows (and columns) of the central free-placement zone
ZoneRange(G) ==
  LET middle == size(G) \div 2
      lower_bound == middle - (num_players(G) \div 2)
      upper_bound == middle + (num_players(G) \div 2) + (size(G) % 2)
  IN lower_bound..(upper_bound - 1)

ZoneEmpty(G) == {p \in ZoneRange(G) \X ZoneRange(G) : G.grid[p] = 0}

\* a find_moves that files every empty square next to another player's
\* piece, bracketed or not
DirMoves_NoBracket(G, dir) ==
  { <<p[1] - dir[1], p[2] - dir[2]>> :
      p \in { q \in pieces(G) :
                /\ G.grid[q] # G.turn
                /\ OnBoard(G, q[1] - dir[1], q[2] - dir[2])
                /\ G.grid[<<q[1] - dir[1], q[2] - dir[2]>>] = 0 } }

\* the squares find_moves files under direction dir in the capture phase
DirMoves(G, dir) ==
  { <<p[1] - dir[1], p[2] - dir[2]>> :
      p \in { q \in pieces(G) :
                /\ G.grid[q] # G.turn
                /\ OnBoard(G, q[1] - dir[1], q[2] - dir[2])
                /\ G.grid[<<q[1] - dir[1], q[2] - dir[2]>>] = 0
                /\ move_works(G, q, dir, 1) # None } }

EmptyDict == [k \in {} |-> {}]

\* find_moves without its test of done
find_moves_IgnoresDone(G) ==
  LET ft == G.first_two /\ ZoneEmpty(G) # {}
      dm == [d \in Dirs |-> DirMoves(G, d)]
  IN IF ft
     THEN [move_list |-> [p \in ZoneEmpty(G) |-> {p}], first_two |-> TRUE]
     ELSE [move_list |-> [d \in {e \in Dirs : dm[e] # {}} |-> dm[d]],
           first_two |-> FALSE]

\* find_moves searching for captures only when it was entered outside the
\* opening phase
find_moves_ElseCaptures(G) ==
  IF G.done THEN [move_list |-> EmptyDict, first_two |-> G.first_two]
  ELSE LET dm == [d \in Dirs |-> DirMoves(G, d)]
       IN IF G.first_two
          THEN [move_list |-> [p \in ZoneEmpty(G) |-> {p}],
                first_two |-> ZoneEmpty(G) # {}]
          ELSE [move_list |-> [d \in {e \in Dirs : dm[e] # {}} |-> dm[d]],
                first_two |-> FALSE]

\* Reversi.find_moves: the dictionary it returns (move_list) and the value
\* it leaves in first_two
find_moves(G) ==
  IF G.done THEN [move_list |-> EmptyDict, first_two |-> G.first_two]
  ELSE LET ft == G.first_two /\ ZoneEmpty(G) # {}
           dm == [d \in Dirs |-> DirMoves(G, d)]
       IN IF ft
          THEN [move_list |-> [p \in ZoneEmpty(G) |-> {p}], first_two |-> TRUE]
          ELSE [move_list |-> [d \in {e \in Dirs : dm[e] # {}} |-> dm[d]],
                first_two |-> FALSE]

\* Reversi.available_moves, as a set
MovesOf(move_list) == UNION {move_list[k] : k \in DOMAIN move_list}

available_moves(G) == MovesOf(find_moves(G).move_list)

\* the game after a call of find_moves / available_moves
AfterQuery(G) == [G EXCEPT !.first_two = find_moves(G).first_two]

\* ------------------------------------------------------------- end_game
Count(G, player) == Cardinality({p \in pieces(G) : G.grid[p] = player})

\* the loop of end_game with >= for >: the last player with the highest
\* count replaces the earlier ones
RECURSIVE Tally_LastWins(_, _, _, _)
Tally_LastWins(G, player, highest_pieces, out) ==
  IF player > num_players(G) THEN out
  ELSE IF Count(G, player) >= highest_pieces
       THEN Tally_LastWins(G, player + 1, Count(G, player), <<player>>)
       ELSE Tally_LastWins(G, player + 1, highest_pieces, out)

\* the loop of end_game over final_dict, from player on
RECURSIVE Tally(_, _, _, _)
Tally(G, player, highest_pieces, out) ==
  IF player > num_players(G) THEN out
  ELSE IF Count(G, player) > highest_pieces
       THEN Tally(G, player + 1, Count(G, player), <<player>>)
       ELSE IF Count(G, player) = highest_pieces
            THEN Tally(G, player + 1, highest_pieces, Append(out, player))
            ELSE Tally(G, player + 1, highest_pieces, out)

\* Reversi.end_game
end_game(G) ==
  [G EXCEPT !.outcome = Tally(G, 1, 0, G.outcome), !.done = TRUE, !.turn = 1]

\* skip_turn without the return to player 1
skip_turn_NoWrap(G) == [G EXCEPT !.turn = G.turn + 1]

\* Reversi.skip_turn
skip_turn(G) ==
  [G EXCEPT !.turn = IF G.turn < num_players(G) THEN G.turn + 1 ELSE 1]

\* ----------------------------------------------------------- apply_move
\* the while loop of apply_move leaving after the first flipped square
FlipRun_OneSquare(G, g, mv, dir, ny, nx) ==
  IF OnBoard(G, ny, nx) /\ g[<<ny, nx>>] # G.turn
  THEN LET up == update_piece(g, <<ny, nx>>, G.turn)
           mv1 == Append(mv, << <<ny, nx>>, g[<<ny, nx>>] >>)
       IN IF up.err # NoErr THEN [grid |-> g, mv |-> mv1, err |-> up.err]
          ELSE [grid |-> up.grid, mv |-> mv1, err |-> NoErr]
  ELSE [grid |-> g, mv |-> mv, err |-> NoErr]

\* the while loop of apply_move recording the owner after the flip
RECURSIVE FlipRun_RecordsNewOwner(_, _, _, _, _, _)
FlipRun_RecordsNewOwner(G, g, mv, dir, ny, nx) ==
  IF OnBoard(G, ny, nx) /\ g[<<ny, nx>>] # G.turn
  THEN LET up == update_piece(g, <<ny, nx>>, G.turn)
           mv1 == Append(mv, << <<ny, nx>>, G.turn >>)
       IN IF up.err # NoErr THEN [grid |-> g, mv |-> mv1, err |-> up.err]
          ELSE FlipRun_RecordsNewOwner(G, up.grid, mv1, dir, ny + dir[1],
                                       nx + dir[2])
  ELSE [grid |-> g, mv |-> mv, err |-> NoErr]

\* the while loop of apply_move along one direction, from square <<ny, nx>>
RECURSIVE FlipRun(_, _, _, _, _, _)
FlipRun(G, g, mv, dir, ny, nx) ==
  IF OnBoard(G, ny, nx) /\ g[<<ny, nx>>] # G.turn
  THEN LET up == update_piece(g, <<ny, nx>>, G.turn)
           mv1 == Append(mv, << <<ny, nx>>, g[<<ny, nx>>] >>)
       IN IF up.err # NoErr THEN [grid |-> g, mv |-> mv1, err |-> up.err]
          ELSE FlipRun(G, up.grid, mv1, dir, ny + dir[1], nx + dir[2])
  ELSE [grid |-> g, mv |-> mv, err |-> NoErr]

\* the for loop of apply_move over DIRECTION_LIST, from index i on
RECURSIVE FlipDirs(_, _, _, _, _, _)
FlipDirs(G, move_dict, pos, g, mv, i) ==
  IF i > Len(DIRECTION_LIST) THEN [grid |-> g, mv |-> mv, err |-> NoErr]
  ELSE LET dir == DIRECTION_LIST[i]
       IN IF dir \in DOMAIN move_dict /\ pos \in move_dict[dir]
          THEN LET run == FlipRun(G, g, mv, dir, pos[1] + dir[1],
                                  pos[2] + dir[2])
               IN IF run.err # NoErr THEN run
                  ELSE FlipDirs(G, move_dict, pos, run.grid, run.mv, i + 1)
          ELSE FlipDirs(G, move_dict, pos, g, mv, i + 1)

\* the end-of-game test counting the owners without the empty squares
EndTest_TwoOwners(G) ==
  \/ /\ ~G.first_two
     /\ Cardinality({G.grid[p] : p \in Squares(size(G))} \ {0}) \in {1, 2}
  \/ Cardinality(pieces(G)) = size(G) * size(G)

\* the end-of-game test without the test on the owners left on the board
EndTest_FullOnly(G) == Cardinality(pieces(G)) = size(G) * size(G)

\* the end-of-game test at the end of apply_move
EndTest(G) ==
  \/ /\ ~G.first_two
     /\ Cardinality({G.grid[p] : p \in Squares(size(G))}) \in {1, 2}
  \/ Cardinality(pieces(G)) = size(G) * size(G)

WithErr(G, e) ==
  [side |-> G.side, players |-> G.players, othello |-> G.othello,
   grid |-> G.grid, turn |-> G.turn, done |-> G.done, outcome |-> G.outcome,
   first_two |-> G.first_two, moves |-> G.moves, err |-> e]

\* the game a query leaves behind, with the value it returns
WithValue(G, e, v) ==
  [side |-> G.side, players |-> G.players, othello |-> G.othello,
   grid |-> G.grid, turn |-> G.turn, done |-> G.done, outcome |-> G.outcome,
   first_two |-> G.first_two, moves |-> G.moves, err |-> e, value |-> v]

\* Reversi.piece_at: Some(owner), or None for an empty square
piece_at(G, pos) ==
  IF OnBoard(G, pos[1], pos[2])
  THEN WithValue(G, NoErr,
                 IF G.grid[pos] # 0 THEN Some(G.grid[pos]) ELSE None)
  ELSE WithValue(G, ErrOutside, None)

\* legal_move without its test of the bounds of the board
legal_move_NoBoundsTest(G, pos) ==
  WithValue(AfterQuery(G), NoErr, pos \in available_moves(G))

\* legal_move answering whether the square is empty
legal_move_EmptySquare(G, pos) ==
  IF OnBoard(G, pos[1], pos[2])
  THEN WithValue(AfterQuery(G), NoErr, G.grid[pos] = 0)
  ELSE WithValue(G, ErrOutsideThe, FALSE)

\* Reversi.legal_move
legal_move(G, pos) ==
  IF OnBoard(G, pos[1], pos[2])
  THEN WithValue(AfterQuery(G), NoErr, pos \in available_moves(G))
  ELSE WithValue(G, ErrOutsideThe, FALSE)

\* apply_move writing the result of its end-of-game test to done
apply_move_SetsDone(G, pos) ==
  IF ~OnBoard(G, pos[1], pos[2]) THEN WithErr(G, ErrOutside)
  ELSE LET fm == find_moves(G)
           G1 == [G EXCEPT !.first_two = fm.first_two]
           placed == add_piece(G1.grid, G1.turn, pos)
           fl == FlipDirs(G1, fm.move_list, pos, placed, << <<pos, 0>> >>, 1)
       IN IF fl.err # NoErr
          THEN WithErr([G1 EXCEPT !.grid = fl.grid], fl.err)
          ELSE LET G2 == [G1 EXCEPT !.grid = fl.grid,
                                    !.moves = Append(@, <<G1.turn, fl.mv>>)]
                   G3 == skip_turn(G2)
               IN IF EndTest(G3) THEN WithErr(end_game(G3), NoErr)
                  ELSE WithErr([G3 EXCEPT !.done = FALSE], NoErr)

\* Reversi.apply_move
apply_move(G, pos) ==
  IF ~OnBoard(G, pos[1], pos[2]) THEN WithErr(G, ErrOutside)
  ELSE LET fm == find_moves(G)
           G1 == [G EXCEPT !.first_two = fm.first_two]
           placed == add_piece(G1.grid, G1.turn, pos)
           fl == FlipDirs(G1, fm.move_list, pos, placed, << <<pos, 0>> >>, 1)
       IN IF fl.err # NoErr
          THEN WithErr([G1 EXCEPT !.grid = fl.grid], fl.err)
          ELSE LET G2 == [G1 EXCEPT !.grid = fl.grid,
                                    !.moves = Append(@, <<G1.turn, fl.mv>>)]
                   G3 == skip_turn(G2)
               IN IF EndTest(G3) THEN WithErr(end_game(G3), NoErr)
                  ELSE WithErr(G3, NoErr)

\* ------------------------------------------------------------- the state
Self ==
  [side |-> side, players |-> players, othello |-> othello, grid |-> grid,
   turn |-> turn, done |-> done, outcome |-> outcome,
   first_two |-> first_two, moves |-> moves]

Becomes(R) ==
  /\ side' = R.side
  /\ players' = R.players
  /\ othello' = R.othello
  /\ grid' = R.grid
  /\ turn' = R.turn
  /\ done' = R.done
  /\ outcome' = R.outcome
  /\ first_two' = R.first_two
  /\ moves' = R.moves

\* the fields of a game
Game(R) ==
  [side |-> R.side, players |-> R.players, othello |-> R.othello,
   grid |-> R.grid, turn |-> R.turn, done |-> R.done, outcome |-> R.outcome,
   first_two |-> R.first_two, moves |-> R.moves]

\* copy.copy: a copy whose _board, _moves and _outcome are the objects of
\* the original
deepcopy_Shallow(G) == [game |-> G, shared |-> {"grid", "moves", "outcome"}]

\* copy.deepcopy: a copy of the game, and the attributes whose objects the
\* copy shares with the original (none)
deepcopy(G) == [game |-> G, shared |-> {}]

\* game A after a method left game B behind, when A and B hold the same
\* objects for the attributes of sh
Through(A, B, sh) ==
  [A EXCEPT !.grid = IF "grid" \in sh THEN B.grid ELSE @,
            !.moves = IF "moves" \in sh THEN B.moves ELSE @,
            !.outcome = IF "outcome" \in sh THEN B.outcome ELSE @]

\* the clone after a method left the receiver as R
CloneSees(R) ==
  IF clone = None THEN None
  ELSE Some([game |-> Through(clone[1].game, R, clone[1].shared),
             shared |-> clone[1].shared])

\* the grid object the caller holds after a method left the receiver as R:
\* what the engine writes on its board shows in the object they share
HeldSees(R) ==
  IF held = None THEN None
  ELSE IF held[1].shared THEN Some([grid |-> R.grid, shared |-> TRUE])
       ELSE held

\* the locals of the driving loop of tui.py when the loop is entered
TuiStart == [players_skipped |-> 0, pc |-> "loop"]

\* the state after construction, for one of the configurations cfgs
Constructed(cfgs) ==
  /\ \E cfg \in cfgs :
       /\ InitError(cfg[1], cfg[2], cfg[3]) = NoErr
       /\ LET G == Reversi(cfg[1], cfg[2], cfg[3])
          IN /\ side = G.side
             /\ players = G.players
             /\ othello = G.othello
             /\ grid = G.grid
             /\ turn = G.turn
             /\ done = G.done
             /\ outcome = G.outcome
             /\ first_two = G.first_two
             /\ moves = G.moves
  /\ last = [op |-> "init", pos |-> NoPos, err |-> NoErr]
  /\ clone = None
  /\ held = None
  /\ tui = TuiStart

Init == Constructed(Configs)

\* the caller's choice among the available moves
Before(p, q) == p[1] < q[1] \/ (p[1] = q[1] /\ p[2] < q[2])
Rank(p, S) == Cardinality({q \in S : Before(q, p)}) + 1
Picks(S) == {p \in S : Rank(p, S) <= MaxPick \/ Rank(p, S) = Cardinality(S)}

\* apply_move(pos) for a position of available_moves, while the history is
\* shorter than bound
ApplyPicked(bound) ==
  /\ Len(moves) < bound
  /\ \E pos \in Picks(available_moves(Self)) :
       LET R == apply_move(Self, pos)
       IN /\ Becomes(R)
          /\ last' = [op |-> "apply_move", pos |-> pos, err |-> R.err]
          /\ clone' = CloneSees(R)
          /\ held' = HeldSees(R)
          /\ tui' = tui

\* ------------------------------------------------------------- roll_back
\* the for loop of roll_back over the squares of the popped record
RECURSIVE Restore(_, _, _)
Restore(g, mv, i) ==
  IF i > Len(mv) THEN [grid |-> g, err |-> NoErr]
  ELSE LET pos == mv[i][1]
           player == mv[i][2]
       IN IF player > 0
          THEN LET up == update_piece(g, pos, player)
               IN IF up.err # NoErr THEN [grid |-> g, err |-> up.err]
                  ELSE Restore(up.grid, mv, i + 1)
          ELSE Restore(remove_piece(g, pos), mv, i + 1)

\* roll_back resetting done and outcome before it pops the history
roll_back_ResetsFirst(G) ==
  IF G.moves = <<>>
  THEN WithErr([G EXCEPT !.done = FALSE, !.outcome = <<>>], ErrPop)
  ELSE LET recent_move == G.moves[Len(G.moves)]
           trn == recent_move[1]
           mv == recent_move[2]
           G1 == [G EXCEPT !.moves = SubSeq(G.moves, 1, Len(G.moves) - 1),
                           !.turn = trn,
                           !.done = FALSE,
                           !.outcome = IF G.done THEN <<>> ELSE @,
                           !.first_two = IF Len(mv) = 1 THEN TRUE ELSE @]
           rs == Restore(G1.grid, mv, 1)
       IN WithErr([G1 EXCEPT !.grid = rs.grid], rs.err)

\* roll_back without the reset of outcome
roll_back_KeepsOutcome(G) ==
  IF G.moves = <<>> THEN WithErr(G, ErrPop)
  ELSE LET recent_move == G.moves[Len(G.moves)]
           trn == recent_move[1]
           mv == recent_move[2]
           G1 == [G EXCEPT !.moves = SubSeq(G.moves, 1, Len(G.moves) - 1),
                           !.turn = trn,
                           !.done = FALSE,
                           !.first_two = IF Len(mv) = 1 THEN TRUE ELSE @]
           rs == Restore(G1.grid, mv, 1)
       IN WithErr([G1 EXCEPT !.grid = rs.grid], rs.err)

\* Reversi.roll_back
roll_back(G) ==
  IF G.moves = <<>> THEN WithErr(G, ErrPop)
  ELSE LET recent_move == G.moves[Len(G.moves)]
           trn == recent_move[1]
           mv == recent_move[2]
           G1 == [G EXCEPT !.moves = SubSeq(G.moves, 1, Len(G.moves) - 1),
                           !.turn = trn,
                           !.done = FALSE,
                           !.outcome = IF G.done THEN <<>> ELSE @,
                           !.first_two = IF Len(mv) = 1 THEN TRUE ELSE @]
           rs == Restore(G1.grid, mv, 1)
       IN WithErr([G1 EXCEPT !.grid = rs.grid], rs.err)

\* -------------------------------------------------- check_for_dead_moves
\* the while loop of check_for_dead_moves, after n players were skipped
RECURSIVE DeadLoop(_, _)
DeadLoop(G, n) ==
  IF n = num_players(G) THEN end_game(G)
  ELSE IF available_moves(G) = {}
       THEN DeadLoop(skip_turn(AfterQuery(G)), n + 1)
       ELSE AfterQuery(G)

\* the number of turns the while loop of check_for_dead_moves has skipped
\* when it is left, after n players were skipped
RECURSIVE DeadSkips(_, _)
DeadSkips(G, n) ==
  IF n = num_players(G) THEN n
  ELSE IF available_moves(G) = {}
       THEN DeadSkips(skip_turn(AfterQuery(G)), n + 1)
       ELSE n

\* check_for_dead_moves skipping one turn before its loop
check_for_dead_moves_SkipsFirst(G) == DeadLoop(skip_turn(G), 0)

\* Reversi.check_for_dead_moves
check_for_dead_moves(G) == DeadLoop(G, 0)

\* ------------------------------------------------------------- load_game
\* the value read at a square of a row that is too short to hold it (the
\* engine's read of such a square raises IndexError)
Absent == -1

\* the grid given as a list of rows, as a board: the squares within the side
\* length (the engine never reads a row beyond it)
GridOf(rows) ==
  [p \in Squares(Len(rows)) |->
     IF p[2] + 1 <= Len(rows[p[1] + 1]) THEN rows[p[1] + 1][p[2] + 1]
     ELSE Absent]

\* Board.update_grid on the new board of load_game: it fills _pieces, whose
\* rows have the side length, from every non-empty cell of the given rows
UpdateGridFails(G, rows) ==
  \E r \in 1..Len(rows) : \E c \in 1..Len(rows[r]) :
    rows[r][c] # 0 /\ c > size(G)

\* load_game without the test of the owners in the grid
load_game_NoOwnerTest(G, t, rows) ==
  IF t < 1 \/ t > num_players(G) THEN WithErr(G, ErrNoPlayer)
  ELSE IF Len(rows) # size(G) THEN WithErr(G, ErrSize)
  ELSE WithErr([G EXCEPT !.grid = GridOf(rows), !.done = FALSE,
                         !.outcome = <<>>, !.turn = t], NoErr)

\* load_game without the reset of done and outcome
load_game_KeepsDone(G, t, rows) ==
  IF t < 1 \/ t > num_players(G) THEN WithErr(G, ErrNoPlayer)
  ELSE IF Len(rows) # size(G) THEN WithErr(G, ErrSize)
  ELSE IF \E r \in 1..Len(rows) : \E c \in 1..Len(rows[r]) :
            rows[r][c] > num_players(G) \/ rows[r][c] < 0
       THEN WithErr(G, ErrInvalidPlayer)
       ELSE WithErr([G EXCEPT !.grid = GridOf(rows), !.turn = t], NoErr)

\* load_game installing the new board before it validates the owners
load_game_ChecksLast(G, t, rows) ==
  IF t < 1 \/ t > num_players(G) THEN WithErr(G, ErrNoPlayer)
  ELSE IF Len(rows) # size(G) THEN WithErr(G, ErrSize)
  ELSE IF \E r \in 1..Len(rows) : \E c \in 1..Len(rows[r]) :
            rows[r][c] > num_players(G) \/ rows[r][c] < 0
       THEN WithErr([G EXCEPT !.grid = GridOf(rows)], ErrInvalidPlayer)
       ELSE WithErr([G EXCEPT !.grid = GridOf(rows), !.done = FALSE,
                              !.outcome = <<>>, !.turn = t], NoErr)

\* Reversi.load_game
load_game(G, t, rows) ==
  IF t < 1 \/ t > num_players(G) THEN WithErr(G, ErrNoPlayer)
  ELSE IF Len(rows) # size(G) THEN WithErr(G, ErrSize)
  ELSE IF UpdateGridFails(G, rows) THEN WithErr(G, ErrIndex)
  ELSE IF \E r \in 1..Len(rows) : \E c \in 1..Len(rows[r]) :
            rows[r][c] > num_players(G) \/ rows[r][c] < 0
       THEN WithErr(G, ErrInvalidPlayer)
       ELSE WithErr([G EXCEPT !.grid = GridOf(rows), !.done = FALSE,
                              !.outcome = <<>>, !.turn = t], NoErr)

\* the boards the caller loads (with player 1 to move)
LoadGrids ==
  { << <<0, 2, 1, 1>>, <<1, 1, 1, 1>>, <<2, 2, 2, 2>>, <<1, 1, 0, 0>> >>,
    << <<0, 2, 1, 1>>, <<1, 1, 1, 1>>, <<1, 1, 1, 1>>, <<2, 2, 2, 2>> >>,
    << <<0, 2, 1, 1>>, <<1, 1, 1, 1>>, <<2, 2, 2, 2>>, <<2, 2, 2, 2>> >>,
    << <<0, 2, 1, 1>>, <<1, 1, 1, 1>>, <<1, 1, 1, 1>>, <<1, 1, 1, 0>> >>,
    << <<0, 2, 1, 1>>, <<1, 1, 1, 1>>, <<1, 1, 1, 1>>, <<2, 2, 2, 0>> >>,
    << <<0, 2, 3, 1, 1>>, <<1, 1, 1, 1, 1>>, <<2, 2, 2, 2, 2>>,
       <<3, 3, 3, 3, 3>>, <<3, 3, 2, 2, 2>> >>,
    << <<0, 2, 3, 1, 0>>, <<3, 3, 2, 1, 1>>, <<1, 1, 2, 3, 1>>,
       <<2, 1, 1, 1, 3>>, <<0, 2, 3, 1, 0>> >> }

\* ------------------------------------------------------------ the actions
ApplyMove == ApplyPicked(MaxHist)

Called(op, pos, R) ==
  /\ Becomes(R)
  /\ last' = [op |-> op, pos |-> pos, err |-> R.err]
  /\ clone' = CloneSees(R)
  /\ held' = HeldSees(R)
  /\ tui' = tui

RollBack == Called("roll_back", NoPos, roll_back(Self))

\* the driving loop skips the player to move when it has no move
SkipTurn ==
  /\ ~done
  /\ available_moves(Self) = {}
  /\ Called("skip_turn", NoPos, WithErr(skip_turn(AfterQuery(Self)), NoErr))

\* a query of available_moves (or legal_move)
AvailableMoves ==
  Called("available_moves", NoPos, WithErr(AfterQuery(Self), NoErr))

CheckForDeadMoves ==
  Called("check_for_dead_moves", NoPos,
         WithErr(check_for_dead_moves(Self), NoErr))

NobodyCanMove(G) ==
  \A t \in 1..num_players(G) : available_moves([G EXCEPT !.turn = t]) = {}

\* the driving loop calls end_game when it leaves its loop
EndGame ==
  /\ done \/ NobodyCanMove(Self)
  /\ Called("end_game", NoPos, WithErr(end_game(Self), NoErr))

LoadGame ==
  /\ Len(moves) <= MaxLoadHist
  /\ \E rows \in LoadGrids :
       /\ Len(rows) = side
       /\ Called("load_game", NoPos, load_game(Self, 1, rows))

Next ==
  \/ ApplyMove
  \/ RollBack
  \/ SkipTurn
  \/ AvailableMoves
  \/ CheckForDeadMoves
  \/ EndGame
  \/ LoadGame

Spec == Init /\ [][Next]_vars

\* plays from construction by apply_move, roll_back and available_moves
PlayMove == ApplyPicked(MaxPlay)

NextPlay ==
  \/ PlayMove
  \/ RollBack
  \/ AvailableMoves

InitPlay == Constructed({cfg \in Configs : ~cfg[3]})

SpecPlay == InitPlay /\ [][NextPlay]_vars

\* --------------------------------------------------- unrestricted calls
\* the positions the callers ask about: a square of the board and two
\* positions outside it
AskedPositions(n) == {<<1, 1>>, <<-1, 0>>, <<n, n>>}

\* the grids the caller passes to load_game: boards of LoadGrids, a grid of
\* the wrong side length and grids with an owner above the player count
FreeGrids ==
  { << <<0, 2, 1, 1>>, <<1, 1, 1, 1>>, <<2, 2, 2, 2>>, <<1, 1, 0, 0>> >>,
    << <<0, 2, 1, 1>>, <<1, 1, 1, 1>>, <<1, 1, 1, 1>>, <<2, 2, 2, 0>> >>,
    << <<0, 2, 3, 1, 0>>, <<3, 3, 2, 1, 1>>, <<1, 1, 2, 3, 1>>,
       <<2, 1, 1, 1, 3>>, <<0, 2, 3, 1, 0>> >>,
    << <<0, 1, 0>>, <<1, 2, 1>>, <<0, 1, 0>> >>,
    << <<0, 2, 1, 1>>, <<1, 1, 3, 1>>, <<2, 2, 2, 2>>, <<1, 1, 0, 0>> >>,
    << <<0, 2, 3, 1, 0>>, <<3, 3, 2, 1, 1>>, <<1, 1, 4, 3, 1>>,
       <<2, 1, 1, 1, 3>>, <<0, 2, 3, 1, 0>> >> }

FreeApply == ApplyPicked(MaxFree)

\* skip_turn called in any state
FreeSkip == Called("skip_turn", NoPos, WithErr(skip_turn(Self), NoErr))

\* load_game called with any turn and grid
FreeLoad ==
  /\ Len(moves) <= MaxLoadHist
  /\ \E t \in 0..(players + 1) : \E rows \in FreeGrids :
       Called("load_game", NoPos, load_game(Self, t, rows))

LegalMove ==
  \E pos \in AskedPositions(side) :
    Called("legal_move", pos, legal_move(Self, pos))

\* the player asked for a move quits: the driving loop is left and end_game
\* is called
QuitGame ==
  /\ ~done
  /\ available_moves(Self) # {}
  /\ Called("end_game", NoPos, WithErr(end_game(AfterQuery(Self)), NoErr))

FreeCheck == Len(outcome) < MaxOutcome /\ CheckForDeadMoves

NextFree ==
  \/ FreeApply
  \/ RollBack
  \/ FreeSkip
  \/ FreeCheck
  \/ FreeLoad
  \/ LegalMove
  \/ QuitGame

InitFree == Constructed({cfg \in Configs : cfg[1] = 4})

SpecFree == InitFree /\ [][NextFree]_vars

\* -------------------------------------------------------- simulate_moves
\* the for loop of simulate_moves, from the i-th move of the list on, on the
\* copy N
RECURSIVE SimLoop(_, _, _)

\* the loop calling check_for_dead_moves after each move
SimStep_SkipsDead(A, ms, i) ==
  IF A.err # NoErr THEN A
  ELSE SimLoop(Game(check_for_dead_moves(Game(A))), ms, i + 1)

\* the loop after apply_move has left A for the i-th move: an exception of
\* apply_move leaves the loop
SimStep(A, ms, i) ==
  IF A.err # NoErr THEN A ELSE SimLoop(Game(A), ms, i + 1)

SimLoop(N, ms, i) ==
  IF i > Len(ms) THEN WithErr(N, NoErr)
  ELSE SimStep(apply_move(N, ms[i]), ms, i)

\* what simulate_moves leaves when its loop has left the copy c as R
SimResult(G, c, R) ==
  [self |-> Through(G, R, c.shared),
   new_game |-> [game |-> Game(R), shared |-> c.shared],
   err |-> R.err]

\* simulate_moves from its copy c on
SimReturn(G, c, ms) == SimResult(G, c, SimLoop(c.game, ms, 1))

\* Reversi.simulate_moves: the receiver it leaves (self), the copy it worked
\* on (new_game) and the exception it raised, if any
simulate_moves(G, ms) == SimReturn(G, deepcopy(G), ms)

\* the game with the turn of the first player, from the player to move on,
\* who has an available move (the game itself when nobody has one)
ToMove(G) ==
  LET live == {k \in 0..(num_players(G) - 1) :
                 available_moves([G EXCEPT !.turn =
                   ((G.turn - 1 + k) % num_players(G)) + 1]) # {}}
  IN IF live = {} THEN G
     ELSE LET k == CHOOSE j \in live : \A i \in live : j <= i
          IN [G EXCEPT !.turn = ((G.turn - 1 + k) % num_players(G)) + 1]

\* the first and the last of the positions S, in row-major order
Ends(S) == {p \in S : Rank(p, S) = 1 \/ Rank(p, S) = Cardinality(S)}

\* the lists of at most k positions passed to simulate_moves: each position
\* is a move of the player the documentation of simulate_moves gives the
\* move to, or the list ends with a position outside the board
RECURSIVE SimLists(_, _)

\* the lists that may follow a move that left A
SimTails(A, k) ==
  IF A.err # NoErr THEN {<<>>} ELSE SimLists(Game(A), k - 1)

SimLists(G, k) ==
  IF k = 0 THEN {<<>>}
  ELSE {<<>>, << <<size(G), size(G)>> >>} \cup
       UNION { {<<m>> \o r : r \in SimTails(apply_move(G, m), k)} :
               m \in Ends(available_moves(ToMove(G))) }

SimApply ==
  /\ Len(moves) < MaxSim
  /\ \E pos \in Ends(available_moves(Self)) :
       Called("apply_move", pos, apply_move(Self, pos))

\* the caller loads a board before it plays or simulates
SimLoad ==
  /\ moves = <<>>
  /\ clone = None
  /\ \E rows \in LoadGrids \cap FreeGrids :
       /\ Len(rows) = side
       /\ Called("load_game", NoPos, load_game(Self, 1, rows))

\* simulate_moves has returned S for the list ms: the caller holds the new
\* game when no exception was raised
Simulated(ms, S) ==
  /\ Becomes(S.self)
  /\ clone' = IF S.err = NoErr THEN Some(S.new_game) ELSE CloneSees(S.self)
  /\ last' = [op |-> "simulate_moves",
              pos |-> IF ms = <<>> THEN NoPos ELSE ms[Len(ms)],
              err |-> S.err]
  /\ held' = HeldSees(S.self)
  /\ tui' = tui

\* simulate_moves called with one of the lists
SimulateOf(lists) ==
  \E ms \in lists : Simulated(ms, simulate_moves(Self, ms))

Simulate == SimulateOf(SimLists(Self, MaxList))

\* simulate_moves called with a list that ends outside the board
SimulateOutside ==
  SimulateOf({ms \in SimLists(Self, MaxList) :
                ms # <<>> /\ ms[Len(ms)] \notin Squares(side)})

\* a method called on the clone leaves the clone as R
CloneCalled(op, pos, R) ==
  /\ clone' = Some([game |-> Game(R), shared |-> clone[1].shared])
  /\ Becomes(Through(Self, R, clone[1].shared))
  /\ last' = [op |-> op, pos |-> pos, err |-> R.err]
  /\ held' = HeldSees(Through(Self, R, clone[1].shared))
  /\ tui' = tui

CloneApply ==
  /\ clone # None
  /\ Len(clone[1].game.moves) < MaxClone
  /\ \E pos \in Ends(available_moves(clone[1].game)) :
       CloneCalled("clone.apply_move", pos, apply_move(clone[1].game, pos))

CloneRollBack ==
  /\ clone # None
  /\ CloneCalled("clone.roll_back", NoPos, roll_back(clone[1].game))

NextSim ==
  \/ SimApply
  \/ RollBack
  \/ SimLoad
  \/ Simulate
  \/ CloneApply
  \/ CloneRollBack

SpecSim == InitFree /\ [][NextSim]_vars

\* ------------------------------------- calls with positions off the board
AskApply == ApplyPicked(MaxAsk)

PieceAt ==
  \E pos \in AskedPositions(side) :
    Called("piece_at", pos, piece_at(Self, pos))

ApplyOutside ==
  \E pos \in AskedPositions(side) \ Squares(side) :
    Called("apply_move", pos, apply_move(Self, pos))

NextAsk ==
  \/ AskApply
  \/ RollBack
  \/ PieceAt
  \/ LegalMove
  \/ ApplyOutside
  \/ SimulateOutside

SpecAsk == InitFree /\ [][NextAsk]_vars

\* ------------------------------------------------- turn and query calls
CallsApply ==
  /\ Len(moves) < MaxCalls
  /\ \E pos \in Ends(available_moves(Self)) :
       Called("apply_move", pos, apply_move(Self, pos))

NextCalls ==
  \/ CallsApply
  \/ RollBack
  \/ FreeSkip
  \/ FreeCheck
  \/ SimLoad
  \/ LegalMove
  \/ QuitGame

SpecCalls == InitFree /\ [][NextCalls]_vars

\* ------------------------------------------- calls on finished games
\* the positions passed to apply_move: moves of available_moves while the
\* game is running, empty squares once it is finished (available_moves is
\* empty then)
DonePositions(G) ==
  IF G.done THEN Ends({p \in Squares(size(G)) : G.grid[p] = 0})
  ELSE Ends(available_moves(G))

DoneApply ==
  /\ Len(moves) < MaxDone
  /\ \E pos \in DonePositions(Self) :
       Called("apply_move", pos, apply_move(Self, pos))

NextDone ==
  \/ DoneApply
  \/ RollBack
  \/ FreeSkip
  \/ FreeCheck
  \/ SimLoad
  \/ QuitGame

SpecDone == InitFree /\ [][NextDone]_vars

\* ------------------------------------------ load_game and the opening
\* the boards loaded: the boards of LoadGrids (their central zone is full)
\* and a board with an empty square in the central zone
PhaseGrids ==
  LoadGrids \cup
  { << <<0, 2, 1, 1>>, <<1, 0, 1, 1>>, <<2, 2, 2, 2>>, <<1, 1, 0, 0>> >> }

PhaseLoad ==
  /\ Len(moves) <= MaxPhase
  /\ \E rows \in PhaseGrids :
       /\ Len(rows) = side
       /\ Called("load_game", NoPos, load_game(Self, 1, rows))

PhaseApply ==
  /\ Len(moves) < MaxPhase
  /\ \E pos \in Ends(available_moves(Self)) :
       Called("apply_move", pos, apply_move(Self, pos))

NextPhase ==
  \/ PhaseLoad
  \/ PhaseApply
  \/ RollBack
  \/ AvailableMoves

SpecPhase == Init /\ [][NextPhase]_vars

\* ------------------------------------------- grids held by the caller
\* the caller reads the grid property and keeps the value: Board.grid
\* returns the board's own _grid object
HeldRead ==
  /\ held = None
  /\ held' = Some([grid |-> grid, shared |-> TRUE])
  /\ last' = [op |-> "grid", pos |-> NoPos, err |-> NoErr]
  /\ UNCHANGED <<side, players, othello, grid, turn, done, outcome,
                 first_two, moves, clone, tui>>

\* the caller passes a grid to load_game and keeps it: Board.update_grid
\* stores the object it is given as the new board's _grid
HeldLoad ==
  /\ moves = <<>>
  /\ held = None
  /\ \E rows \in LoadGrids :
       /\ Len(rows) = side
       /\ LET R == load_game(Self, 1, rows)
          IN /\ Becomes(R)
             /\ last' = [op |-> "load_game", pos |-> NoPos, err |-> R.err]
             /\ clone' = CloneSees(R)
             /\ held' = Some([grid |-> GridOf(rows), shared |-> R.err = NoErr])
             /\ tui' = tui

HeldApply ==
  /\ Len(moves) < MaxHeld
  /\ \E pos \in Ends(available_moves(Self)) :
       Called("apply_move", pos, apply_move(Self, pos))

\* the caller drops the grid it holds
HeldDrop ==
  /\ held # None
  /\ held' = None
  /\ last' = [op |-> "drop", pos |-> NoPos, err |-> NoErr]
  /\ UNCHANGED <<side, players, othello, grid, turn, done, outcome,
                 first_two, moves, clone, tui>>

NextHeld ==
  \/ HeldRead
  \/ HeldLoad
  \/ HeldApply
  \/ RollBack
  \/ HeldDrop

SpecHeld == Init /\ [][NextHeld]_vars

\* ------------------------------------------------- empty boards loaded
\* the grid of side n without a piece, as a list of rows
EmptyRows(n) == [r \in 1..n |-> [c \in 1..n |-> 0]]

\* load_game called with an empty grid
EmptyLoad ==
  /\ Len(moves) <= MaxLoadHist
  /\ \E t \in 1..players :
       Called("load_game", NoPos, load_game(Self, t, EmptyRows(side)))

EmptyApply ==
  /\ Len(moves) < MaxEmpty
  /\ \E pos \in Ends(available_moves(Self)) :
       Called("apply_move", pos, apply_move(Self, pos))

NextEmpty ==
  \/ EmptyLoad
  \/ EmptyApply
  \/ RollBack
  \/ FreeCheck
  \/ QuitGame

SpecEmpty == Init /\ [][NextEmpty]_vars

\* ------------------------------------------------ calls and the history
\* apply_move while the history and the board are small (a call that
\* raises leaves its piece on the board and no record in the history)
TrailApply ==
  /\ Len(moves) < MaxTrail
  /\ Cardinality(pieces(Self)) < MaxTrail + 4
  /\ \E pos \in Ends(available_moves(Self)) :
       Called("apply_move", pos, apply_move(Self, pos))

\* simulate_moves has returned S and the caller drops the returned game
TrailSimulated(ms, S) ==
  /\ Becomes(S.self)
  /\ clone' = None
  /\ last' = [op |-> "simulate_moves",
              pos |-> IF ms = <<>> THEN NoPos ELSE ms[Len(ms)],
              err |-> S.err]
  /\ held' = HeldSees(S.self)
  /\ tui' = tui

\* simulate_moves called with a list of at most one position
TrailSimulate ==
  \E ms \in SimLists(Self, 1) : TrailSimulated(ms, simulate_moves(Self, ms))

NextTrail ==
  \/ TrailApply
  \/ RollBack
  \/ FreeSkip
  \/ FreeCheck
  \/ AvailableMoves
  \/ LegalMove
  \/ PieceAt
  \/ TrailSimulate

SpecTrail == InitFree /\ [][NextTrail]_vars

\* ------------------------------------------- owners and turn in range
RangeApply ==
  /\ Len(moves) < MaxRange
  /\ Cardinality(pieces(Self)) < MaxRange + 4
  /\ \E pos \in Ends(available_moves(Self)) :
       Called("apply_move", pos, apply_move(Self, pos))

\* load_game called with any turn and grid, also after moves were made
RangeLoad ==
  /\ Len(moves) < MaxRange
  /\ \E t \in 0..(players + 1) : \E rows \in FreeGrids :
       Called("load_game", NoPos, load_game(Self, t, rows))

NextRange ==
  \/ RangeApply
  \/ RollBack
  \/ FreeSkip
  \/ FreeCheck
  \/ RangeLoad

SpecRange == Init /\ [][NextRange]_vars

\* --------------------------------------------- grids with uneven rows
\* the grids passed to load_game: a board of LoadGrids, the same with a row
\* cut short, with an empty cell added to a row, with an occupied cell
\* added to a row, and with a row missing
RaggedGrids ==
  { << <<0, 2, 1, 1>>, <<1, 1, 1, 1>>, <<2, 2, 2, 2>>, <<1, 1, 0, 0>> >>,
    << <<0, 2, 1, 1>>, <<1, 1, 1>>, <<2, 2, 2, 2>>, <<1, 1, 0, 0>> >>,
    << <<0, 2, 1, 1>>, <<1, 1, 1, 1, 0>>, <<2, 2, 2, 2>>, <<1, 1, 0, 0>> >>,
    << <<0, 2, 1, 1>>, <<1, 1, 1, 1, 2>>, <<2, 2, 2, 2>>, <<1, 1, 0, 0>> >>,
    << <<0, 2, 1, 1>>, <<1, 1, 1, 1>>, <<2, 2, 2, 2>> >> }

\* every square of the board can be read
Whole(g) == \A p \in DOMAIN g : g[p] # Absent

RaggedLoad ==
  /\ Len(moves) < MaxRagged
  /\ \E t \in 1..players : \E rows \in RaggedGrids :
       Called("load_game", NoPos, load_game(Self, t, rows))

\* apply_move on a board whose squares can all be read
RaggedApply ==
  /\ Whole(grid)
  /\ Len(moves) < MaxRagged
  /\ Cardinality(pieces(Self)) < MaxRagged + 4
  /\ \E pos \in Ends(available_moves(Self)) :
       Called("apply_move", pos, apply_move(Self, pos))

RaggedRollBack == Whole(grid) /\ RollBack

NextRagged ==
  \/ RaggedLoad
  \/ RaggedApply
  \/ RaggedRollBack

SpecRagged == InitFree /\ [][NextRagged]_vars

\* ------------------------------------ apply_move, check_for_dead_moves
\* the play that repeats apply_move of an available move and
\* check_for_dead_moves until the game is done; an exception ends it
LoopApply ==
  /\ ~done
  /\ last.op \in {"init", "check_for_dead_moves"}
  /\ \E pos \in Ends(available_moves(Self)) :
       Called("apply_move", pos, apply_move(Self, pos))

LoopCheck ==
  /\ last.op = "apply_move"
  /\ last.err = NoErr
  /\ CheckForDeadMoves

NextLoop ==
  \/ LoopApply
  \/ LoopCheck

SpecLoop == InitFree /\ [][NextLoop]_vars

\* ------------------------------------------------------ capture moves
CaptureApply ==
  /\ Len(moves) < MaxCapture
  /\ Cardinality(pieces(Self)) < side * side
  /\ \E pos \in Ends(available_moves(Self)) :
       Called("apply_move", pos, apply_move(Self, pos))

\* boards on which some player owns no piece
CaptureGrids ==
  { << <<0, 0, 0, 0, 0>>, <<0, 1, 2, 1, 0>>, <<0, 2, 1, 2, 0>>,
       <<0, 1, 2, 1, 0>>, <<0, 0, 0, 0, 0>> >>,
    << <<0, 0, 0, 0, 0>>, <<0, 3, 3, 1, 0>>, <<0, 3, 1, 3, 0>>,
       <<0, 1, 3, 3, 0>>, <<0, 0, 0, 0, 0>> >>,
    << <<0, 0, 0, 0>>, <<0, 1, 1, 0>>, <<0, 1, 1, 0>>, <<0, 0, 0, 0>> >>,
    << <<0, 0, 0, 0>>, <<0, 1, 2, 0>>, <<0, 1, 1, 0>>, <<2, 0, 0, 0>> >> }

\* load_game before the first move, with a board of the game's size and any
\* player's turn
CaptureLoad ==
  /\ moves = <<>>
  /\ \E t \in 1..players : \E rows \in LoadGrids \cup CaptureGrids :
       /\ Len(rows) = side
       /\ Called("load_game", NoPos, load_game(Self, t, rows))

NextCapture ==
  \/ CaptureApply
  \/ RollBack
  \/ SkipTurn
  \/ CaptureLoad

SpecCapture == Init /\ [][NextCapture]_vars

\* ------------------------------------------- queries of available_moves
QueryApply ==
  /\ Len(moves) < MaxQuery
  /\ \E pos \in Ends(available_moves(Self)) :
       Called("apply_move", pos, apply_move(Self, pos))

NextQuery ==
  \/ QueryApply
  \/ RollBack
  \/ AvailableMoves

SpecQuery == Init /\ [][NextQuery]_vars

\* ----------------------------------------------- the driving loop of tui
\* the test of the while loop
InLoop == tui.pc = "loop" /\ ~done /\ tui.players_skipped < players

\* a call made by the driving loop, which leaves its locals as t
TuiCalled(op, pos, R, t) ==
  /\ Becomes(R)
  /\ last' = [op |-> op, pos |-> pos, err |-> R.err]
  /\ clone' = CloneSees(R)
  /\ held' = HeldSees(R)
  /\ tui' = t

\* the player to move has no move: skip_turn, and one more player skipped
TuiSkip ==
  /\ InLoop
  /\ available_moves(Self) = {}
  /\ TuiCalled("skip_turn", NoPos,
               WithErr(skip_turn(AfterQuery(Self)), NoErr),
               [tui EXCEPT !.players_skipped = @ + 1])

\* apply_move has left A: an exception of apply_move ends the program
TuiMoved(pos, A) ==
  TuiCalled("apply_move", pos, A,
            [players_skipped |-> 0,
             pc |-> IF A.err = NoErr THEN "loop" ELSE "raised"])

\* legal_move has answered L for the chosen move: apply_move when it is
\* legal, back to the test of the loop when it is not
TuiChosen(pos, L) ==
  IF L.value THEN TuiMoved(pos, apply_move(Game(L), pos))
  ELSE TuiCalled("legal_move", pos, L, [players_skipped |-> 0, pc |-> "loop"])

\* the player to move chooses one of the moves listed
TuiMove ==
  /\ InLoop
  /\ \E pos \in Ends(available_moves(Self)) :
       TuiChosen(pos, legal_move(AfterQuery(Self), pos))

\* the player to move types quit: the loop is left and end_game is called
TuiQuit ==
  /\ InLoop
  /\ available_moves(Self) # {}
  /\ TuiCalled("end_game", NoPos, WithErr(end_game(AfterQuery(Self)), NoErr),
               [players_skipped |-> 0, pc |-> "ended"])

\* the test of the loop fails: end_game is called
TuiEnd ==
  /\ tui.pc = "loop"
  /\ done \/ tui.players_skipped >= players
  /\ TuiCalled("end_game", NoPos, WithErr(end_game(Self), NoErr),
               [tui EXCEPT !.pc = "ended"])

NextTui ==
  \/ TuiSkip
  \/ TuiMove
  \/ TuiQuit
  \/ TuiEnd

SpecTui == InitFree /\ [][NextTui]_vars

\* ------------------------------------------ check_for_dead_moves calls
DeadApply ==
  /\ Len(moves) < MaxDead
  /\ \E pos \in Ends(available_moves(Self)) :
       Called("apply_move", pos, apply_move(Self, pos))

\* the boards loaded before check_for_dead_moves is called: the boards of
\* LoadGrids, and a board on which only player 3 has a move
DeadGrids ==
  LoadGrids \cup
  { << <<0, 1, 3, 1, 0>>, <<3, 3, 3, 3, 3>>, <<3, 3, 3, 3, 3>>,
       <<3, 3, 3, 3, 3>>, <<3, 3, 3, 3, 3>> >> }

\* load_game called with any player to move
DeadLoad ==
  /\ Len(moves) <= MaxLoadHist
  /\ \E t \in 1..players : \E rows \in DeadGrids :
       /\ Len(rows) = side
       /\ Called("load_game", NoPos, load_game(Self, t, rows))

NextDead ==
  \/ DeadApply
  \/ RollBack
  \/ DeadLoad
  \/ FreeCheck

SpecDead == Init /\ [][NextDead]_vars

\* ------------------------------------------------------- the constructor
\* the arguments of a constructor call that has not run yet
InitArgs ==
  /\ side \in 0..MaxSideArg
  /\ players \in 0..MaxPlayersArg
  /\ othello \in BOOLEAN
  /\ grid = Board(0)
  /\ turn = 0
  /\ done = FALSE
  /\ outcome = <<>>
  /\ first_two = FALSE
  /\ moves = <<>>
  /\ last = [op |-> "args", pos |-> NoPos, err |-> NoErr]
  /\ clone = None
  /\ held = None
  /\ tui = TuiStart

\* Reversi.__init__ called with the arguments side, players and othello
Construct ==
  /\ last.op = "args"
  /\ LET e == InitError(side, players, othello)
     IN IF e = NoErr
        THEN Called("init", NoPos,
                    WithErr(Reversi(side, players, othello), NoErr))
        ELSE Called("init", NoPos, WithErr(Self, e))

SpecNew == InitArgs /\ [][Construct]_vars

\* ------------------------------------------------------------ properties
\* the free-placement stage: find_moves answers with the empty zone squares
OpeningPhase(G) == G.first_two /\ ZoneEmpty(G) # {}

Step(p, d, k) == <<p[1] + k * d[1], p[2] + k * d[2]>>

\* from the empty square q along d: n - 1 >= 1 squares of players other than
\* the mover, then a square of the mover
Brackets(G, q, d, n) ==
  /\ \A j \in 1..(n - 1) :
       /\ OnBoard(G, Step(q, d, j)[1], Step(q, d, j)[2])
       /\ G.grid[Step(q, d, j)] \notin {0, G.turn}
  /\ OnBoard(G, Step(q, d, n)[1], Step(q, d, n)[2])
  /\ G.grid[Step(q, d, n)] = G.turn

CaptureSet(G) ==
  { q \in Squares(size(G)) :
      /\ G.grid[q] = 0
      /\ \E d \in Dirs : \E n \in 2..(size(G) - 1) : Brackets(G, q, d, n) }

\* the squares strictly between pos and the nearest piece of the mover, over
\* the directions whose run from pos holds other players' pieces only
Bracketed(G, pos) ==
  UNION { {Step(pos, dn[1], k) : k \in 1..(dn[2] - 1)} :
            dn \in {e \in Dirs \X (2..(size(G) - 1)) :
                      Brackets(G, pos, e[1], e[2])} }

\* the board a capture move of the mover at pos must leave
ExpectedGrid(G, pos) ==
  LET flipped == Bracketed(G, pos)
  IN [q \in Squares(size(G)) |->
        IF q = pos \/ q \in flipped THEN G.turn ELSE G.grid[q]]

Owners(g) == {g[p] : p \in DOMAIN g} \ {0}
Full(g) == \A p \in DOMAIN g : g[p] # 0

LastRecord == moves[Len(moves)]

\* the previous owners of the squares flipped by the last recorded move
FlippedOwners ==
  {LastRecord[2][i][2] : i \in 2..Len(LastRecord[2])}

Applied == last.op = "apply_move" /\ last.err = NoErr /\ moves # <<>>

\* C1: in every reachable state, for every pos of available_moves,
\* apply_move(pos) followed by roll_back() completes without error and
\* restores grid, turn, done and outcome.
C1_RoundTrip ==
  \A pos \in available_moves(Self) :
    LET A == apply_move(Self, pos)
        B == roll_back(A)
    IN /\ A.err = NoErr
       /\ B.err = NoErr
       /\ B.grid = grid
       /\ B.turn = turn
       /\ B.done = done
       /\ B.outcome = outcome

\* C2: apply_move(pos) with an on-board pos outside available_moves reports
\* an error other than the out-of-bounds error and leaves grid, turn, done,
\* outcome and the history unchanged.
C2_IllegalMoveRejected ==
  \A pos \in Squares(side) \ available_moves(Self) :
    LET A == apply_move(Self, pos)
    IN /\ A.err \notin {NoErr, ErrOutside}
       /\ A.grid = grid
       /\ A.turn = turn
       /\ A.done = done
       /\ A.outcome = outcome
       /\ A.moves = moves

\* C3: outside the opening phase, apply_move(pos) for a legal pos gives pos
\* to the mover, gives the mover every square strictly between pos and the
\* nearest mover-owned square along each direction whose run consists of
\* other players' pieces only, and keeps the owner of every other square.
C3_ApplyFlipsRuns ==
  ~OpeningPhase(Self) =>
    \A pos \in available_moves(Self) :
      LET A == apply_move(Self, pos)
      IN A.err = NoErr /\ A.grid = ExpectedGrid(Self, pos)

\* a capture move has just flipped pieces of two different opponents
C3_Witness ==
  /\ Applied
  /\ ~first_two
  /\ Cardinality(FlippedOwners) >= 2
  /\ grid[last.pos] = LastRecord[1]

\* C4: outside the opening phase and while the game is not done,
\* available_moves is exactly the set of empty squares from which some
\* direction holds a run of one or more squares of other players followed
\* by a square of the mover, for 2 and for more than 2 players.
C4_AvailableIsCaptureSet ==
  (~OpeningPhase(Self) /\ ~done) =>
    available_moves(Self) = CaptureSet(Self)

\* three players, capture phase: some empty square next to a piece is a
\* move and some other empty square next to a piece is not
C4_Witness ==
  /\ players > 2
  /\ ~OpeningPhase(Self)
  /\ ~done
  /\ available_moves(Self) # {}
  /\ \E q \in Squares(side) \ available_moves(Self) :
       /\ grid[q] = 0
       /\ \E d \in Dirs : /\ OnBoard(Self, Step(q, d, 1)[1], Step(q, d, 1)[2])
                          /\ grid[Step(q, d, 1)] \notin {0, turn}

\* C5: in a non-Othello game reached from construction by apply_move and
\* roll_back, available_moves is the set of empty zone squares while the
\* zone has an empty square, and the capture-based set once it has none.
C5_PhaseFollowsZone ==
  ~othello =>
    IF ZoneEmpty(Self) # {}
    THEN available_moves(Self) = ZoneEmpty(Self)
    ELSE available_moves(Self) = CaptureSet(Self)

\* C6: during the opening phase apply_move(pos), for every pos of
\* available_moves, completes without raising, sets pos to the mover,
\* changes no other square, appends one history record and advances the
\* turn.
C6_OpeningMovePlacesOnly ==
  OpeningPhase(Self) =>
    \A pos \in available_moves(Self) :
      LET A == apply_move(Self, pos)
      IN /\ A.err = NoErr
         /\ A.grid = [grid EXCEPT ![pos] = turn]
         /\ Len(A.moves) = Len(moves) + 1
         /\ A.turn = skip_turn(Self).turn

\* the players after the mover, in increasing order wrapping to 1 (the mover
\* itself comes last)
After(G, mover, k) == ((mover - 1 + k) % num_players(G)) + 1

CanMove(G, t) == available_moves([G EXCEPT !.turn = t, !.done = FALSE]) # {}

\* C7: after apply_move of a legal move that does not end the game, turn is
\* the first player after the mover, in increasing order wrapping from
\* players to 1, who has at least one available move.
C7_TurnSkipsDeadPlayers ==
  \A pos \in available_moves(Self) :
    LET A == apply_move(Self, pos)
    IN (/\ A.err = NoErr
        /\ ~A.done
        /\ \E t \in 1..players : CanMove(A, t))
       => \E k \in 1..players :
            /\ A.turn = After(A, turn, k)
            /\ CanMove(A, A.turn)
            /\ \A j \in 1..(k - 1) : ~CanMove(A, After(A, turn, j))

\* C8: after apply_move, if no player has any available move on the
\* resulting board, done is true.
C8_DoneWhenNobodyCanMove ==
  \A pos \in available_moves(Self) :
    LET A == apply_move(Self, pos)
    IN (A.err = NoErr /\ \A t \in 1..players : ~CanMove(A, t)) => A.done

\* C9: after an apply_move that leaves no empty square, or that is made
\* outside the opening phase and leaves pieces of fewer than 2 distinct
\* players, done is true on return.
C9_DoneOnFullOrSingleOwner ==
  \A pos \in available_moves(Self) :
    LET A == apply_move(Self, pos)
    IN (/\ A.err = NoErr
        /\ \/ Full(A.grid)
           \/ ~OpeningPhase(Self) /\ Cardinality(Owners(A.grid)) < 2)
       => A.done

\* a capture move has just left a single owner on a board with an empty
\* square, and the game is done
C9_Witness ==
  /\ Applied
  /\ Len(LastRecord[2]) > 1
  /\ Cardinality(Owners(grid)) = 1
  /\ ~Full(grid)
  /\ done

MaxCount(G) ==
  CHOOSE m \in 0..(size(G) * size(G)) :
    /\ \E t \in 1..num_players(G) : Count(G, t) = m
    /\ \A t \in 1..num_players(G) : Count(G, t) <= m

\* C10: whenever done is true and the board holds a piece, outcome lists
\* exactly the players whose piece count is the maximum, each once and in
\* increasing order, also when end_game ran more than once.
C10_OutcomeIsMaxSet ==
  (done /\ pieces(Self) # {}) =>
    /\ {outcome[i] : i \in 1..Len(outcome)} =
         {t \in 1..players : Count(Self, t) = MaxCount(Self)}
    /\ \A i \in 1..(Len(outcome) - 1) : outcome[i] < outcome[i + 1]

\* end_game has run again on a full board (which apply_move had already
\* ended), and two players tie
C10_Witness ==
  /\ done
  /\ last.op = "end_game"
  /\ Full(grid)
  /\ Len(outcome) > 1

\* C11: in every state reached by apply_move, skip_turn,
\* check_for_dead_moves, load_game and roll_back (and end_game), outcome is
\* non-empty if and only if done is true.
C11_OutcomeIffDone == (outcome # <<>>) <=> done

\* roll_back has just undone a move, the game is not done and outcome is
\* empty, and a move of the player to move ends the game again
C11_Witness ==
  /\ last.op = "roll_back"
  /\ last.err = NoErr
  /\ ~done
  /\ outcome = <<>>
  /\ \E pos \in available_moves(Self) :
       LET A == apply_move(Self, pos)
       IN A.err = NoErr /\ A.done /\ A.outcome # <<>>

\* C12: whenever done is true, available_moves is empty and legal_move(pos)
\* returns false for every pos of the board, whatever the board and turn.
C12_NoMovesWhenDone ==
  done =>
    /\ available_moves(Self) = {}
    /\ \A pos \in Squares(side) :
         legal_move(Self, pos).err = NoErr /\ ~legal_move(Self, pos).value

\* legal_move has just been asked, in a game that is done, about a square
\* that would be a move of the player to move were the game not done
C12_Witness ==
  /\ done
  /\ last.op = "legal_move"
  /\ last.err = NoErr
  /\ last.pos \in available_moves([Self EXCEPT !.done = FALSE])

\* the turns and grids passed to load_game
LoadTurns == 0..(players + 1)
LoadArgs == LoadTurns \X (LoadGrids \cup FreeGrids)

SameGame(A, B) ==
  /\ A.grid = B.grid
  /\ A.turn = B.turn
  /\ A.done = B.done
  /\ A.outcome = B.outcome
  /\ A.first_two = B.first_two
  /\ A.moves = B.moves

\* C15: after a successful load_game(turn, grid) the history is empty: a
\* roll_back called next fails with the empty-history error and changes
\* nothing, whatever moves had been applied before the load.
C15_LoadClearsHistory ==
  \A a \in LoadArgs :
    LET L == load_game(Self, a[1], a[2])
        B == roll_back(L)
    IN L.err = NoErr =>
         /\ L.moves = <<>>
         /\ B.err = ErrPop
         /\ SameGame(B, L)

\* C16: roll_back on a game with no recorded move fails with an error and
\* leaves grid, turn, done, outcome and first_two unchanged.
C16_RollBackEmptyFails ==
  moves = <<>> =>
    LET B == roll_back(Self)
    IN /\ B.err = ErrPop
       /\ B.grid = grid
       /\ B.turn = turn
       /\ B.done = done
       /\ B.outcome = outcome
       /\ B.first_two = first_two

\* roll_back has just failed on the empty history of a game that is done
C16_Witness ==
  /\ last.op = "roll_back"
  /\ last.err = ErrPop
  /\ moves = <<>>
  /\ done
  /\ outcome # <<>>
  /\ pieces(Self) # {}

\* C17: a successful load_game(turn, grid), called in any state (done
\* included), leaves the board with exactly the owners of grid, turn equal
\* to the given turn, done false and outcome empty.
C17_LoadReplacesState ==
  \A a \in LoadArgs :
    LET L == load_game(Self, a[1], a[2])
    IN L.err = NoErr =>
         /\ L.grid = GridOf(a[2])
         /\ \A p \in Squares(side) : L.grid[p] = a[2][p[1] + 1][p[2] + 1]
         /\ L.turn = a[1]
         /\ ~L.done
         /\ L.outcome = <<>>

\* a game that is done, with a history, in which load_game succeeds and
\* changes the board, the turn, done and outcome
C17_Witness ==
  /\ done
  /\ outcome # <<>>
  /\ moves # <<>>
  /\ \E a \in LoadArgs :
       LET L == load_game(Self, a[1], a[2])
       IN /\ L.err = NoErr
          /\ L.grid # grid
          /\ L.turn # turn
          /\ ~L.done
          /\ L.outcome = <<>>

\* C18: load_game(turn, grid) fails with an error when turn is outside
\* 1..players, when the side length of grid differs from side, or when the
\* owner of some cell is greater than players, and in each failing case
\* grid, turn, done, outcome and the history are unchanged.
C18_LoadRejectsBadInput ==
  \A a \in LoadArgs :
    LET L == load_game(Self, a[1], a[2])
        rows == a[2]
    IN /\ ( \/ a[1] \notin 1..players
            \/ Len(rows) # side
            \/ \E r \in 1..Len(rows) : \E c \in 1..Len(rows[r]) :
                 rows[r][c] > players )
          => L.err # NoErr
       /\ L.err # NoErr =>
            /\ L.grid = grid
            /\ L.turn = turn
            /\ L.done = done
            /\ L.outcome = outcome
            /\ L.moves = moves

\* load_game has just rejected a grid with an owner above the player count,
\* in a game that is done and has pieces on the board
C18_Witness ==
  /\ last.op = "load_game"
  /\ last.err = ErrInvalidPlayer
  /\ done
  /\ pieces(Self) # {}

Constructs == last.op = "init"
Rejects == last.op = "init" /\ last.err # NoErr

\* C20 as stated: constructing an engine fails exactly when players is
\* outside 2..9, or side is below 3, or side and players have different
\* parity, or Othello is requested with more than 2 players.
C20_RejectsExactly ==
  Constructs =>
    (Rejects <=> \/ players < 2 \/ players > 9
                 \/ side < 3
                 \/ side % 2 # players % 2
                 \/ othello /\ players > 2)

\* C20, amended: constructing an engine fails exactly when players is
\* outside 2..9, or side is below 3, or side is not greater than players,
\* or side and players have different parity, or Othello is requested with
\* more than 2 players; every other combination is accepted.
C20_RejectsExactlyAmended ==
  Constructs =>
    (Rejects <=> \/ players < 2 \/ players > 9
                 \/ side < 3
                 \/ side <= players
                 \/ side % 2 # players % 2
                 \/ othello /\ players > 2)

\* the constructor has just rejected a side that is at least 3 and of the
\* parity of a player count in 2..9, without Othello
C20_Witness ==
  /\ Rejects
  /\ players >= 2 /\ players <= 9
  /\ side >= 3
  /\ side % 2 = players % 2
  /\ ~othello

CloneOps == {"simulate_moves", "clone.apply_move", "clone.roll_back"}

C14_ListedMoveByLivePlayer ==
  \A m1 \in available_moves(Self) :
    LET A == apply_move(Self, m1)
        N == ToMove(Game(A))
    IN (A.err = NoErr /\ ~A.done) =>
         \A m2 \in available_moves(N) :
           LET S == simulate_moves(Self, <<m1, m2>>)
               h == S.new_game.game.moves
           IN S.err = NoErr =>
                /\ Len(h) = Len(moves) + 2
                /\ h[Len(h)][1] = N.turn
                /\ available_moves([Game(A) EXCEPT !.turn = h[Len(h)][1]])
                     # {}

\* the positions next to the board and outside it
Outside(n) == (((-1)..n) \X ((-1)..n)) \ Squares(n)

\* C19: piece_at, legal_move and apply_move called with a position whose
\* row or column is outside 0..side-1 fail with an out-of-bounds error and
\* change nothing of grid, turn, done, outcome or history; simulate_moves
\* with such a position in its list fails without changing the receiver.
C19_OutsideRejected ==
  \A pos \in Outside(side) :
    /\ piece_at(Self, pos).err = ErrOutside
    /\ SameGame(piece_at(Self, pos), Self)
    /\ legal_move(Self, pos).err = ErrOutsideThe
    /\ SameGame(legal_move(Self, pos), Self)
    /\ apply_move(Self, pos).err = ErrOutside
    /\ SameGame(apply_move(Self, pos), Self)
    /\ simulate_moves(Self, <<pos>>).err = ErrOutside
    /\ simulate_moves(Self, <<pos>>).self = Self
    /\ pos \in AskedPositions(side) =>
         \A m \in available_moves(Self) :
           LET S == simulate_moves(Self, <<m, pos>>)
           IN S.err # NoErr /\ S.self = Self

\* simulate_moves has just failed on a position outside the board, in a
\* game with a history and pieces on the board
C19_Witness ==
  /\ last.op = "simulate_moves"
  /\ last.err = ErrOutside
  /\ last.pos \in Outside(side)
  /\ moves # <<>>
  /\ pieces(Self) # {}
\* C21: for every even side s accepted with players = 2 and othello = true,
\* the constructed game has exactly 4 pieces, player 2 on (s/2-1, s/2-1) and
\* (s/2, s/2), player 1 on (s/2-1, s/2) and (s/2, s/2-1), turn 1, done
\* false, outcome empty, and available_moves is exactly {(s/2-2, s/2-1),
\* (s/2-1, s/2-2), (s/2, s/2+1), (s/2+1, s/2)}.
C21_OthelloStart ==
  (last.op = "init" /\ last.err = NoErr /\ players = 2 /\ othello) =>
    LET h == side \div 2
    IN /\ side % 2 = 0
       /\ Cardinality(pieces(Self)) = 4
       /\ grid[<<h - 1, h - 1>>] = 2
       /\ grid[<<h, h>>] = 2
       /\ grid[<<h - 1, h>>] = 1
       /\ grid[<<h, h - 1>>] = 1
       /\ turn = 1
       /\ ~done
       /\ outcome = <<>>
       /\ available_moves(Self) =
            {<<h - 2, h - 1>>, <<h - 1, h - 2>>, <<h, h + 1>>, <<h + 1, h>>}

\* an 8x8 Othello game has just been constructed, and (2, 3) is a move
C21_Witness ==
  /\ last.op = "init"
  /\ last.err = NoErr
  /\ othello
  /\ players = 2
  /\ side = 8
  /\ <<2, 3>> \in available_moves(Self)

\* C22: for every on-board position pos and every state, legal_move(pos) is
\* true if and only if pos is a member of available_moves in that state
\* (asked before or after the call).
C22_LegalIffAvailable ==
  \A pos \in Squares(side) :
    LET L == legal_move(Self, pos)
    IN /\ L.err = NoErr
       /\ L.value <=> pos \in available_moves(Self)
       /\ L.value <=> pos \in available_moves(Game(L))

\* legal_move has just answered for a square that is a move of the player to
\* move, while another empty square of the board is not one
C22_Witness ==
  /\ last.op = "legal_move"
  /\ last.err = NoErr
  /\ last.pos \in available_moves(Self)
  /\ \E q \in Squares(side) \ available_moves(Self) : grid[q] = 0

\* C23: skip_turn changes turn from t to t + 1, or from players to 1, and
\* leaves grid, done, outcome and the history unchanged.
C23_SkipTurnFrame ==
  LET R == skip_turn(Self)
  IN /\ turn \in 1..players
     /\ R.turn = IF turn = players THEN 1 ELSE turn + 1
     /\ R.grid = grid
     /\ R.done = done
     /\ R.outcome = outcome
     /\ R.moves = moves

\* skip_turn has just passed the turn from the last player to player 1, on a
\* board with pieces and with a recorded move
C23_Witness ==
  /\ last.op = "skip_turn"
  /\ turn = 1
  /\ moves # <<>>
  /\ moves[Len(moves)][1] = players
  /\ pieces(Self) # {}

\* C24: calling available_moves twice in a row with no mutating operation
\* in between yields the same set, in every state including the state just
\* after the move that fills the central zone; the query changes none of
\* grid, turn, done, outcome or history.
C24_QueryIdempotent ==
  LET Q == AfterQuery(Self)
  IN /\ available_moves(Q) = available_moves(Self)
     /\ Q.grid = grid
     /\ Q.turn = turn
     /\ Q.done = done
     /\ Q.outcome = outcome
     /\ Q.moves = moves

\* the move that fills the central zone has just been applied: first_two is
\* still set, and the first query will clear it and search for captures
C24_Witness ==
  /\ Applied
  /\ ~othello
  /\ first_two
  /\ ZoneEmpty(Self) = {}
  /\ ~AfterQuery(Self).first_two
  /\ available_moves(Self) # {}

\* C25: under the driving loop of the external interface every game started
\* from a freshly constructed engine eventually reaches done: whenever the
\* loop has been left for good (the program has ended or an exception has
\* ended it), done is true.
C25_StoppedMeansDone == tui.pc # "loop" => done

C28_LoadedPhaseFollowsBoard ==
  (last.op = "load_game" /\ last.err = NoErr /\ ~othello) =>
    available_moves(Self) =
      IF ZoneEmpty(Self) # {} THEN ZoneEmpty(Self)
      ELSE available_moves([Self EXCEPT !.first_two = FALSE])

\* C29: the engine's board shares no mutable state with its callers: a grid
\* passed to load_game, or read from the grid property, and still held by
\* the caller is not changed by a later apply_move or roll_back.
C29_HeldGridUnchanged ==
  [][(/\ held # None
       /\ last'.op \in {"apply_move", "roll_back"}
       /\ last'.err = NoErr) => held' = held]_vars

\* C30: when the game is ended on a board with no piece at all, outcome is
\* empty.
C30_EmptyBoardNoWinner ==
  (done /\ pieces(Self) = {}) => outcome = <<>>

\* the squares of the record rec after its first entry, and the squares
\* whose owner the step changed apart from the square pos
Flipped(rec) == {rec[i][1] : i \in 2..Len(rec)}
Changed(g, h, pos) == {q \in DOMAIN g : q # pos /\ g[q] # h[q]}

\* C31: a successful apply_move appends exactly one record to the history
\* (the mover, the placed square, and every flipped square once with its
\* previous owner), a successful roll_back removes exactly the last record,
\* and a failed call, skip_turn, check_for_dead_moves, available_moves,
\* legal_move, piece_at and simulate_moves leave the history as it was.
C31_HistoryChanges ==
  [][IF last'.op = "apply_move" /\ last'.err = NoErr
     THEN /\ Len(moves') = Len(moves) + 1
          /\ SubSeq(moves', 1, Len(moves)) = moves
          /\ LET rec == moves'[Len(moves')][2]
             IN /\ moves'[Len(moves')][1] = turn
                /\ rec[1] = <<last'.pos, 0>>
                /\ Flipped(rec) = Changed(grid, grid', last'.pos)
                /\ Cardinality(Flipped(rec)) = Len(rec) - 1
                /\ \A i \in 2..Len(rec) : rec[i][2] = grid[rec[i][1]]
     ELSE IF last'.op = "roll_back" /\ last'.err = NoErr
     THEN moves # <<>> /\ moves' = SubSeq(moves, 1, Len(moves) - 1)
     ELSE moves' = moves]_vars

\* apply_move has appended a record that lists two flipped squares to a
\* history that already held a record
C31_Witness ==
  /\ Applied
  /\ Len(moves) >= 2
  /\ Len(LastRecord[2]) >= 3

\* C32: in every state reached by legal apply_move, skip_turn,
\* check_for_dead_moves, load_game and roll_back, turn is in 1..players and
\* the owner of every occupied square is in 1..players.
C32_TurnAndOwnersInRange ==
  /\ turn \in 1..players
  /\ \A p \in Squares(side) : grid[p] \in 0..players

\* skip_turn has wrapped the turn of a three-player game round to player 1
\* on a loaded board that holds a piece of player 3
C32_Witness ==
  /\ last.op = "skip_turn"
  /\ players = 3
  /\ turn = 1
  /\ \E p \in Squares(side) : grid[p] = 3

\* C33: load_game rejects with a size error every grid whose dimensions
\* differ from side x side, a grid with side rows and a row of another
\* length included, and leaves the state unchanged.
C33_LoadRejectsWrongDimensions ==
  Whole(grid) =>
    \A t \in 1..players : \A rows \in RaggedGrids :
      (Len(rows) # side \/ \E r \in 1..Len(rows) : Len(rows[r]) # side) =>
        LET L == load_game(Self, t, rows)
        IN /\ L.err \in {ErrSize, ErrSizeBoard}
           /\ L.grid = grid
           /\ L.turn = turn
           /\ L.done = done
           /\ L.outcome = outcome

\* C34: for every pos of available_moves, apply_move(pos) followed by
\* check_for_dead_moves() and roll_back() completes and restores grid, turn,
\* done and outcome, also when check_for_dead_moves skipped players or ended
\* the game.
C34_ApplyCheckRollBack ==
  \A pos \in available_moves(Self) :
    LET A == apply_move(Self, pos)
        B == roll_back(check_for_dead_moves(Game(A)))
    IN /\ A.err = NoErr
       /\ B.err = NoErr
       /\ B.grid = grid
       /\ B.turn = turn
       /\ B.done = done
       /\ B.outcome = outcome

\* the game a fresh game becomes by the moves of the history ms played
\* forward from its i-th record on, available_moves queried before each
RECURSIVE Forward(_, _, _)
Forward(G, ms, i) ==
  IF i > Len(ms) THEN AfterQuery(G)
  ELSE Forward(Game(apply_move(AfterQuery(G), ms[i][2][1][1])), ms, i + 1)

\* C35: in a game played from construction by legal apply_move calls,
\* available_moves queries and roll_back calls, every apply_move completes,
\* and after any number of roll_back calls the grid, the turn and
\* available_moves are those the position had on the way forward (all
\* history rolled back: the constructed grid and turn).
C35_RollBackRetracesForward ==
  LET F == Forward(Reversi(side, players, othello), moves, 1)
  IN /\ last.op = "apply_move" => last.err = NoErr
     /\ grid = F.grid
     /\ turn = F.turn
     /\ available_moves(Self) = available_moves(F)

\* apply_move called for each position of ms in order, from the i-th on, on
\* the game G: the game it leaves and the exception that stopped it
RECURSIVE ApplyEach(_, _, _)
ApplyEach(G, ms, i) ==
  IF i > Len(ms) THEN WithErr(G, NoErr)
  ELSE LET A == apply_move(G, ms[i])
       IN IF A.err # NoErr THEN A ELSE ApplyEach(Game(A), ms, i + 1)

SameOutside(A, B) ==
  /\ A.grid = B.grid
  /\ A.turn = B.turn
  /\ A.done = B.done
  /\ A.outcome = B.outcome

OnBoardLists == {ms \in SimLists(Self, MaxList) :
                   \A i \in 1..Len(ms) : ms[i] \in Squares(side)}

\* what simulate_moves returns for ms is what apply_move, called for each
\* position in order on a game in the receiver's state, leaves
SimulatesAsApplied(ms, S, R) ==
  /\ S.err = R.err
  /\ S.err = NoErr => SameOutside(S.new_game.game, R)
  /\ (ms = <<>>) => (S.err = NoErr /\ S.new_game.game = Self)

InitialCount == Cardinality(pieces(Reversi(side, players, othello)))

\* C37: a play that repeats apply_move of an available move and
\* check_for_dead_moves from construction never raises, never comes to a
\* position with done false and no move for the player to move, and is
\* done after at most side * side minus the initial piece count moves.
C37_PlayEndsWithinBoard ==
  /\ last.err = NoErr
  /\ (last.op \in {"init", "check_for_dead_moves"} /\ ~done) =>
       available_moves(Self) # {}
  /\ Len(moves) <= side * side - InitialCount
  /\ (last.op = "check_for_dead_moves"
       /\ Len(moves) = side * side - InitialCount) => done

\* C38: whenever apply_move(pos), for a pos of available_moves outside the
\* opening phase, sets done, the board it leaves is full or holds pieces of
\* fewer than 2 players, and no player 1..players has a capture move on it.
C38_EndsOnlyWhenNobodyCanMove ==
  \A pos \in available_moves(Self) :
    LET A == apply_move(Self, pos)
    IN (~OpeningPhase(Self) /\ A.err = NoErr /\ A.done) =>
         /\ Full(A.grid) \/ Cardinality(Owners(A.grid)) < 2
         /\ \A t \in 1..players :
              CaptureSet([Game(A) EXCEPT !.turn = t]) = {}

\* a capture move has just filled the last empty square of a board that
\* holds pieces of two players, and the game is done
C38_Witness ==
  /\ Applied
  /\ Len(LastRecord[2]) > 1
  /\ Full(grid)
  /\ Cardinality(Owners(grid)) = 2
  /\ done

\* C39: outside the opening phase a player who owns no piece has no available
\* move, and every available move is applied without error, flips at least one
\* piece of another player, raises the number of pieces on the board by exactly
\* 1 and the mover's number of pieces by at least 2
C39_LegalMoveCaptures ==
  ~OpeningPhase(Self) =>
    /\ \A t \in 1..players :
         Count(Self, t) = 0 => available_moves([Self EXCEPT !.turn = t]) = {}
    /\ \A pos \in available_moves(Self) :
         LET A == apply_move(Self, pos)
             gained == {p \in pieces(Game(A)) : A.grid[p] = turn /\ grid[p] # turn}
         IN /\ A.err = NoErr
            /\ \E p \in gained : grid[p] # 0
            /\ Cardinality(pieces(Game(A))) = Cardinality(pieces(Self)) + 1
            /\ Count(Game(A), turn) >= Count(Self, turn) + 2

\* a capture has been applied to a board on which some player owned no piece
C39_Witness ==
  /\ Applied
  /\ Len(LastRecord[2]) > 1
  /\ ~OpeningPhase(Self)
  /\ \E t \in 1..players : Count(Self, t) = 0 /\ ~done

====
